---- MODULE Spec2Model ----
(***************************************************************************)
(* Model of the kandalf cluster coordinator (cluster/cluster.go):          *)
(*   NewCluster          - bootstrap of the raft participant               *)
(*   Cluster.doRun       - the lifecycle poll loop                         *)
(*   listenForLeadership - the single-shot leadership watcher              *)
(*   getFirstLocalAddr   - the local address resolver                      *)
(* The raft library, the runnable base and the worker are collaborators    *)
(* outside cluster.go; they appear here only through the calls cluster.go  *)
(* makes on them.                                                          *)
(***************************************************************************)
EXTENDS Integers, Sequences, FiniteSets, TLC

\* ------------------------------------------------------------------------
\* Bounds of the model
\* ------------------------------------------------------------------------
\* Worker constructions per node after which the model stops a watcher that
\* would construct another one (the code constructs at most one).
MaxStarts == 2

\* Interfaces of a host, and addresses bound to one interface, in the inputs
\* of getFirstLocalAddr.
MaxIfaces == 2

MaxAddrs == 2

\* Entries of the peer list given to NewCluster.
MaxPeers == 2

\* Calls of NewCluster followed in one process.
MaxCalls == 2

\* The nodes of the cluster, each running one coordinator process.
Nodes == {"n1", "n2"}

\* "leader" when no node holds leadership.
NoLeader == "none"

\* The process whose bootstrap is followed step by step in SpecBoot.
BootNode == "n1"

VARIABLES
    leader,        \* raft: the node currently holding leadership, or NoLeader
    leaderCh,      \* raft.LeaderCh() of each node: the pending values (at most one)
    proc,          \* each process: "boot" (in NewCluster), "up" (NewCluster returned), "exited"
    IsWorking,     \* Cluster.RunnableWorker.IsWorking of each node
    runPc,         \* position of doRun on each node
    watchPc,       \* position of listenForLeadership on each node
    becameLeader,  \* listenForLeadership's local becameLeader
    worker,        \* listenForLeadership's local worker: 0 is nil, i > 0 is workers[n][i]
    workers,       \* the Workers constructed on each node, in order, with their liveness flags
    received,      \* history: the values the watcher received from the channel, in order
    stopBranch,    \* history: number of executions of the "stop the old worker" branch
    lateSleeps,    \* history: sleeps doRun began while IsWorking was already false
    mutex,         \* Cluster.mutex of each node: "nil" (no Cluster yet), "unlocked", "locked"
    gfla,          \* one call of getFirstLocalAddr: what the host answers, and the return values
    nc             \* NewCluster in the process BootNode: its inputs, locals and position

rtVars == <<leader, leaderCh, proc, IsWorking, runPc, watchPc, becameLeader,
            worker, workers, received, stopBranch, lateSleeps, mutex>>

\* ------------------------------------------------------------------------
\* The worker collaborator (kandalf/workers, kandalf/runnable)
\* ------------------------------------------------------------------------
\* workers.NewWorker(): a fresh Worker, not running yet.
NewWorker == [rwIsWorking |-> FALSE, isWorking |-> FALSE]

\* Worker.Run(wg, die): the worker is started; its liveness flags are set.
WorkerRun(w) == [w EXCEPT !.rwIsWorking = TRUE, !.isWorking = TRUE]

\* lines 153-154: both liveness flags of the old worker are cleared.
WorkerStop(w) == [w EXCEPT !.rwIsWorking = FALSE, !.isWorking = FALSE]

Running(w) == w.rwIsWorking /\ w.isWorking

\* The node runs a Worker.
HasRunningWorker(n) == \E i \in 1..Len(workers[n]) : Running(workers[n][i])

\* ------------------------------------------------------------------------
\* raft: leadership transitions and their notification
\* ------------------------------------------------------------------------
\* A notification v offered to a node's leadership channel. The channel holds
\* at most one pending value; a value offered while nobody can take it is
\* either kept as the pending value or lost.
Notify(ch, v) == {ch, <<v>>}

\* The node wins an election: raft notifies true on its channel.
BecomeLeader(n) ==
    /\ proc[n] = "up"
    /\ leader = NoLeader
    /\ leader' = n
    /\ \E c \in Notify(leaderCh[n], TRUE) : leaderCh' = [leaderCh EXCEPT ![n] = c]
    /\ UNCHANGED <<proc, IsWorking, runPc, watchPc, becameLeader, worker, workers,
                   received, stopBranch, lateSleeps, gfla, nc, mutex>>

\* The leader steps down: raft notifies false on its channel.
LoseLeadership(n) ==
    /\ proc[n] = "up"
    /\ leader = n
    /\ leader' = NoLeader
    /\ \E c \in Notify(leaderCh[n], FALSE) : leaderCh' = [leaderCh EXCEPT ![n] = c]
    /\ UNCHANGED <<proc, IsWorking, runPc, watchPc, becameLeader, worker, workers,
                   received, stopBranch, lateSleeps, gfla, nc, mutex>>

\* ------------------------------------------------------------------------
\* runnable.RunnableWorker: start and stop of the lifecycle
\* ------------------------------------------------------------------------
\* RunnableWorker.Run: the liveness flag is set and doRun is invoked.
Run(n) ==
    /\ proc[n] = "up"
    /\ runPc[n] = "idle"
    /\ IsWorking' = [IsWorking EXCEPT ![n] = TRUE]
    /\ runPc' = [runPc EXCEPT ![n] = "entered"]
    /\ UNCHANGED <<leader, leaderCh, proc, watchPc, becameLeader, worker, workers,
                   received, stopBranch, lateSleeps, gfla, nc, mutex>>

\* The liveness flag is cleared from outside (the process is told to stop).
Stop(n) ==
    /\ proc[n] = "up"
    /\ IsWorking[n]
    /\ IsWorking' = [IsWorking EXCEPT ![n] = FALSE]
    /\ UNCHANGED <<leader, leaderCh, proc, runPc, watchPc, becameLeader, worker,
                   workers, received, stopBranch, lateSleeps, gfla, nc, mutex>>

\* ------------------------------------------------------------------------
\* Cluster.doRun
\* ------------------------------------------------------------------------
\* doRun entering its loop without having launched the watcher.
DoRunLaunchSkipped(n) ==
    /\ runPc[n] = "entered"
    /\ runPc' = [runPc EXCEPT ![n] = "check"]
    /\ UNCHANGED <<leader, leaderCh, proc, IsWorking, watchPc, becameLeader,
                   worker, workers, received, stopBranch, lateSleeps, gfla, nc, mutex>>

\* line 133: go cl.listenForLeadership(wgMain, dieMain)
DoRunLaunch(n) ==
    /\ runPc[n] = "entered"
    /\ runPc' = [runPc EXCEPT ![n] = "check"]
    /\ watchPc' = [watchPc EXCEPT ![n] = "recv"]
    /\ becameLeader' = [becameLeader EXCEPT ![n] = FALSE]
    /\ worker' = [worker EXCEPT ![n] = 0]
    /\ UNCHANGED <<leader, leaderCh, proc, IsWorking, workers, received,
                   stopBranch, lateSleeps, gfla, nc, mutex>>

\* A loop whose condition never reads the flag.
LoopConditionAlways(n) == TRUE

\* The loop condition of line 135.
LoopCondition(n) == IsWorking[n]

\* line 135: the for condition is evaluated; the loop is left when it is false.
DoRunCheck(n) ==
    /\ runPc[n] = "check"
    /\ runPc' = [runPc EXCEPT ![n] = IF LoopCondition(n) THEN "body" ELSE "returned"]
    /\ UNCHANGED <<leader, leaderCh, proc, IsWorking, watchPc, becameLeader,
                   worker, workers, received, stopBranch, lateSleeps, gfla, nc, mutex>>

\* line 136: time.Sleep(config.InfiniteCycleTimeout) begins.
DoRunSleep(n) ==
    /\ runPc[n] = "body"
    /\ runPc' = [runPc EXCEPT ![n] = "sleeping"]
    /\ lateSleeps' = [lateSleeps EXCEPT ![n] = IF IsWorking[n] THEN @ ELSE @ + 1]
    /\ UNCHANGED <<leader, leaderCh, proc, IsWorking, watchPc, becameLeader,
                   worker, workers, received, stopBranch, gfla, nc, mutex>>

\* line 136: the sleep ends and the loop goes back to its condition.
DoRunWake(n) ==
    /\ runPc[n] = "sleeping"
    /\ runPc' = [runPc EXCEPT ![n] = "check"]
    /\ UNCHANGED <<leader, leaderCh, proc, IsWorking, watchPc, becameLeader,
                   worker, workers, received, stopBranch, lateSleeps, gfla, nc, mutex>>

\* ------------------------------------------------------------------------
\* Cluster.listenForLeadership
\* ------------------------------------------------------------------------
\* A watcher that goes back to the receive after handling a value.
AfterHandlingLoop == "recv"

\* Where the watcher goes after it handled a received value: the function
\* returns (there is no loop around the receive).
AfterHandling == "done"

\* A branch taken on the opposite value.
LeaderBranchNegated(b) == ~b

\* A branch taken whatever the value.
LeaderBranchAlways(b) == TRUE

\* line 150: if becameLeader
LeaderBranch(b) == b

\* line 148: becameLeader = <-cl.raft.LeaderCh()
WatcherReceive(n) ==
    /\ watchPc[n] = "recv"
    /\ Len(leaderCh[n]) > 0
    /\ becameLeader' = [becameLeader EXCEPT ![n] = Head(leaderCh[n])]
    /\ leaderCh' = [leaderCh EXCEPT ![n] = Tail(@)]
    /\ received' = [received EXCEPT ![n] = Append(@, Head(leaderCh[n]))]
    /\ watchPc' = [watchPc EXCEPT ![n] = "test"]
    /\ UNCHANGED <<leader, proc, IsWorking, runPc, worker, workers, stopBranch,
                   lateSleeps, gfla, nc, mutex>>

\* lines 152-155: the old worker, if the reference is not nil, is stopped.
StopOld(ws, ref) == IF ref # 0 THEN [ws EXCEPT ![ref] = WorkerStop(@)] ELSE ws

\* A watcher that starts the Worker only while the lifecycle's liveness flag
\* is set.
WatcherHandleChecksFlag(n) ==
    /\ watchPc[n] = "test"
    /\ IF LeaderBranch(becameLeader[n]) /\ IsWorking[n]
         THEN /\ Len(workers[n]) < MaxStarts
              /\ workers' = [workers EXCEPT ![n] =
                               Append(StopOld(@, worker[n]), WorkerRun(NewWorker))]
              /\ worker' = [worker EXCEPT ![n] = Len(workers[n]) + 1]
              /\ stopBranch' = [stopBranch EXCEPT ![n] =
                                  IF worker[n] # 0 THEN @ + 1 ELSE @]
         ELSE UNCHANGED <<workers, worker, stopBranch>>
    /\ watchPc' = [watchPc EXCEPT ![n] = AfterHandling]
    /\ UNCHANGED <<leader, leaderCh, proc, IsWorking, runPc, becameLeader,
                   received, lateSleeps, gfla, nc, mutex>>

\* A watcher that locks the mutex when it handles a value and does not
\* unlock it.
WatcherHandleLocks(n) ==
    /\ watchPc[n] = "test"
    /\ mutex[n] = "unlocked"
    /\ mutex' = [mutex EXCEPT ![n] = "locked"]
    /\ IF LeaderBranch(becameLeader[n])
         THEN /\ Len(workers[n]) < MaxStarts
              /\ workers' = [workers EXCEPT ![n] =
                               Append(StopOld(@, worker[n]), WorkerRun(NewWorker))]
              /\ worker' = [worker EXCEPT ![n] = Len(workers[n]) + 1]
              /\ stopBranch' = [stopBranch EXCEPT ![n] =
                                  IF worker[n] # 0 THEN @ + 1 ELSE @]
         ELSE UNCHANGED <<workers, worker, stopBranch>>
    /\ watchPc' = [watchPc EXCEPT ![n] = AfterHandling]
    /\ UNCHANGED <<leader, leaderCh, proc, IsWorking, runPc, becameLeader,
                   received, lateSleeps, gfla, nc>>

\* lines 150-159: on true the old worker is stopped, a new Worker is
\* constructed and run; on false nothing is done. Then the function returns.
WatcherHandle(n) ==
    /\ watchPc[n] = "test"
    /\ IF LeaderBranch(becameLeader[n])
         THEN /\ Len(workers[n]) < MaxStarts
              /\ workers' = [workers EXCEPT ![n] =
                               Append(StopOld(@, worker[n]), WorkerRun(NewWorker))]
              /\ worker' = [worker EXCEPT ![n] = Len(workers[n]) + 1]
              /\ stopBranch' = [stopBranch EXCEPT ![n] =
                                  IF worker[n] # 0 THEN @ + 1 ELSE @]
         ELSE UNCHANGED <<workers, worker, stopBranch>>
    /\ watchPc' = [watchPc EXCEPT ![n] = AfterHandling]
    /\ UNCHANGED <<leader, leaderCh, proc, IsWorking, runPc, becameLeader,
                   received, lateSleeps, gfla, nc, mutex>>

InitRuntime ==
    /\ leader = NoLeader
    /\ leaderCh = [n \in Nodes |-> <<>>]
    /\ IsWorking = [n \in Nodes |-> FALSE]
    /\ runPc = [n \in Nodes |-> "idle"]
    /\ watchPc = [n \in Nodes |-> "none"]
    /\ becameLeader = [n \in Nodes |-> FALSE]
    /\ worker = [n \in Nodes |-> 0]
    /\ workers = [n \in Nodes |-> <<>>]
    /\ received = [n \in Nodes |-> <<>>]
    /\ stopBranch = [n \in Nodes |-> 0]
    /\ lateSleeps = [n \in Nodes |-> 0]

\* ------------------------------------------------------------------------
\* getFirstLocalAddr
\* ------------------------------------------------------------------------
\* All sequences over S of length at most k.
SeqsUpTo(S, k) == UNION {[1..m -> S] : m \in 0..k}

\* The net.Addr values a host's interfaces may list: the dynamic type
\* (net.Interface.Addrs returns *net.IPNet and *net.IPAddr values) and the IP.
Addrs ==
    { [kind |-> "IPNet", ip |-> <<127, 0, 0, 1>>],
      [kind |-> "IPNet", ip |-> <<10, 0, 0, 2>>],
      [kind |-> "IPAddr", ip |-> <<192, 168, 1, 3>>] }

\* A net.Interface: whether its Addrs() fails, and the addresses it lists.
Ifaces ==
    {[err |-> TRUE, addrs |-> <<>>]}
        \cup {[err |-> FALSE, addrs |-> a] : a \in SeqsUpTo(Addrs, MaxAddrs)}

\* What the host answers to net.Interfaces(): an error, or its interfaces in
\* the order the system enumerates them.
Hosts ==
    {[err |-> TRUE, ifaces |-> <<>>]}
        \cup {[err |-> FALSE, ifaces |-> s] : s \in SeqsUpTo(Ifaces, MaxIfaces)}

\* net.IP.String(): "<nil>" for an empty IP, dotted decimal for four bytes.
IPString(ip) ==
    IF Len(ip) = 0 THEN "<nil>"
    ELSE IF Len(ip) = 4
      THEN ToString(ip[1]) \o "." \o ToString(ip[2]) \o "."
             \o ToString(ip[3]) \o "." \o ToString(ip[4])
      ELSE "?"

\* lines 177-182: the type switch; a value of another type leaves result.
AddrSwitch(addr, result) ==
    IF addr.kind = "IPNet" THEN IPString(addr.ip)
    ELSE IF addr.kind = "IPAddr" THEN IPString(addr.ip)
    ELSE result

\* lines 176-187: the loop over one interface's addresses, left by the break
\* as soon as result is not empty.
RECURSIVE AddrLoop(_, _)
AddrLoop(addrs, result) ==
    IF addrs = <<>> THEN result
    ELSE LET r == AddrSwitch(Head(addrs), result)
         IN  IF Len(r) > 0 THEN r ELSE AddrLoop(Tail(addrs), r)

\* An interface whose failure to list its addresses empties the result.
IfaceStepReset(iface, result) ==
    IF iface.err THEN "" ELSE AddrLoop(iface.addrs, result)

\* lines 170-187: one iteration of the loop over the interfaces; an
\* interface whose Addrs() fails is skipped.
IfaceStep(iface, result) ==
    IF iface.err THEN result ELSE AddrLoop(iface.addrs, result)

\* A loop over the interfaces that ends at the first interface whose Addrs()
\* fails.
RECURSIVE IfaceLoopStopsOnError(_, _)
IfaceLoopStopsOnError(ifaces, result) ==
    IF ifaces = <<>> \/ Head(ifaces).err THEN result
    ELSE IfaceLoopStopsOnError(Tail(ifaces), IfaceStep(Head(ifaces), result))

\* lines 169-188: the loop over the interfaces; the break of line 185 leaves
\* the inner loop only, so every interface is visited.
RECURSIVE IfaceLoop(_, _)
IfaceLoop(ifaces, result) ==
    IF ifaces = <<>> THEN result
    ELSE IfaceLoop(Tail(ifaces), IfaceStep(Head(ifaces), result))

\* lines 163-195: the return values (result, err).
getFirstLocalAddr(host) ==
    IF host.err
      THEN [result |-> "", err |-> "net.Interfaces"]
      ELSE LET r == IfaceLoop(host.ifaces, "")
           IN  IF Len(r) = 0
                 THEN [result |-> "", err |-> "Unable to find local address to bind"]
                 ELSE [result |-> r, err |-> "nil"]

\* The call of getFirstLocalAddr on the host's answer.
GetFirstLocalAddr ==
    /\ gfla.pc = "call"
    /\ gfla' = [gfla EXCEPT !.pc = "returned", !.out = getFirstLocalAddr(gfla.host)]
    /\ UNCHANGED <<rtVars, nc>>

\* No call of getFirstLocalAddr is followed.
GflaIdle == [pc |-> "idle", host |-> [err |-> TRUE, ifaces |-> <<>>],
             out |-> [result |-> "", err |-> "nil"]]

\* ------------------------------------------------------------------------
\* NewCluster
\* ------------------------------------------------------------------------
\* line 34: the default of cluster.bind_port.
ClusterBindPort == 11291

\* line 40: 10 * time.Second, in milliseconds.
DefaultTimeout == 10000

\* Values of cluster.bind_host: "" asks for auto-detection.
BindHosts == {"", "10.0.0.5"}

\* Values of cluster.timeout, as sequences of characters.
TimeoutStrings ==
    { <<"1", "0", "s">>,
      <<"5", "s">>,
      <<"1", "m", "3", "0", "s">>,
      <<"2", "5", "0", "m", "s">>,
      <<"n", "o", "t", "-", "a", "-", "d", "u", "r", "a", "t", "i", "o", "n">>,
      <<"1", "0">>,
      <<>> }

\* Addresses that may appear in the peer list.
PeerAddrs == {"10.0.0.1:11291", "10.0.0.2:11291"}

\* Hosts the bootstrap is followed on: net.Interfaces() fails; no interface;
\* one interface whose Addrs() fails; loopback only; loopback and ethernet.
BootHosts ==
    LET lo == [err |-> FALSE, addrs |-> <<[kind |-> "IPNet", ip |-> <<127, 0, 0, 1>>]>>]
        eth == [err |-> FALSE, addrs |-> <<[kind |-> "IPNet", ip |-> <<10, 0, 0, 2>>]>>]
        bad == [err |-> TRUE, addrs |-> <<>>]
    IN  { [err |-> TRUE, ifaces |-> <<>>],
          [err |-> FALSE, ifaces |-> <<>>],
          [err |-> FALSE, ifaces |-> <<bad>>],
          [err |-> FALSE, ifaces |-> <<lo>>],
          [err |-> FALSE, ifaces |-> <<lo, eth>>] }

Digits == {"0", "1", "2", "3", "4", "5", "6", "7", "8", "9"}

DigitValue(c) ==
    CASE c = "0" -> 0 [] c = "1" -> 1 [] c = "2" -> 2 [] c = "3" -> 3
      [] c = "4" -> 4 [] c = "5" -> 5 [] c = "6" -> 6 [] c = "7" -> 7
      [] c = "8" -> 8 [] c = "9" -> 9

\* The units of time.ParseDuration from the millisecond up, in milliseconds.
UnitMillis(u) ==
    CASE u = <<"m", "s">> -> 1
      [] u = <<"s">> -> 1000
      [] u = <<"m">> -> 60000
      [] u = <<"h">> -> 3600000
      [] OTHER -> 0

\* The longest prefix of s made of digits (d = TRUE) or of non-digits.
RECURSIVE Run1(_, _)
Run1(s, d) ==
    IF s # <<>> /\ ((Head(s) \in Digits) = d)
      THEN <<Head(s)>> \o Run1(Tail(s), d)
      ELSE <<>>

RECURSIVE Number(_, _)
Number(ds, acc) ==
    IF ds = <<>> THEN acc ELSE Number(Tail(ds), 10 * acc + DigitValue(Head(ds)))

\* The error time.ParseDuration returns for a string it cannot parse.
ParseError == "time: invalid duration"

\* time.ParseDuration on groups of an integer and a unit: each group adds
\* number * unit; a group without digits, without a unit or with an unknown
\* unit is an error, as is the empty string. The value is in milliseconds.
RECURSIVE ParseGroups(_, _)
ParseGroups(s, acc) ==
    IF s = <<>> THEN [value |-> acc, err |-> "nil"]
    ELSE LET ds == Run1(s, TRUE)
             us == Run1(SubSeq(s, Len(ds) + 1, Len(s)), FALSE)
             rest == SubSeq(s, Len(ds) + Len(us) + 1, Len(s))
         IN  IF ds = <<>> \/ us = <<>> \/ UnitMillis(us) = 0
               THEN [value |-> 0, err |-> ParseError]
               ELSE ParseGroups(rest, acc + Number(ds, 0) * UnitMillis(us))

ParseDuration(s) ==
    IF s = <<>> THEN [value |-> 0, err |-> ParseError]
    ELSE IF s = <<"0">> THEN [value |-> 0, err |-> "nil"]
    ELSE ParseGroups(s, 0)

\* lines 38-41: the parsed timeout, or 10 seconds when the parse failed.
TimeoutOrDefault(d) == IF d.err # "nil" THEN DefaultTimeout ELSE d.value

\* The error check placed after the if block: err is tested on both paths.
BindStepCheckAlways(cfgHost, err, host) ==
    IF Len(cfgHost) = 0
      THEN LET r == getFirstLocalAddr(host)
           IN  [host |-> r.result, err |-> r.err, checked |-> TRUE, called |-> TRUE]
      ELSE [host |-> cfgHost, err |-> err, checked |-> TRUE, called |-> FALSE]

\* The local address resolved whatever the configured host.
BindStepAlwaysResolves(cfgHost, err, host) ==
    LET r == getFirstLocalAddr(host)
    IN  [host |-> r.result, err |-> r.err, checked |-> TRUE, called |-> TRUE]

\* lines 43-50: with an empty configured host, getFirstLocalAddr sets the
\* host and err, and err is tested; otherwise nothing is assigned or tested.
BindStep(cfgHost, err, host) ==
    IF Len(cfgHost) = 0
      THEN LET r == getFirstLocalAddr(host)
           IN  [host |-> r.result, err |-> r.err, checked |-> TRUE, called |-> TRUE]
      ELSE [host |-> cfgHost, err |-> err, checked |-> FALSE, called |-> FALSE]

\* raft.DefaultConfig(), in the two fields NewCluster sets.
DefaultConfig == [EnableSingleNode |-> FALSE, DisableBootstrapAfterElect |-> TRUE]

\* A test that leaves out the empty peer list.
SingleNodeExactlyOne(clusterNodes) == Len(clusterNodes) = 1

\* line 110: len(clusterNodes) <= 1
SingleNode(clusterNodes) == Len(clusterNodes) <= 1

\* lines 109-113: the raft configuration.
RaftConfig(clusterNodes) ==
    IF SingleNode(clusterNodes)
      THEN [DefaultConfig EXCEPT !.EnableSingleNode = TRUE,
                                 !.DisableBootstrapAfterElect = FALSE]
      ELSE DefaultConfig

\* The steps of NewCluster, in the order of the code.
StepOrder == <<"bind", "tcpaddr", "snapshots", "bolt", "transport", "peers", "raft">>

\* The frame of NewCluster at its entry, for given configuration, peer list
\* and host.
NcFrame(bindHostCfg, timeoutCfg, clusterNodes, host) ==
    [ pc |-> "config",
      bindHostCfg |-> bindHostCfg,      \* cluster.bind_host
      timeoutCfg |-> timeoutCfg,        \* cluster.timeout
      clusterNodes |-> clusterNodes,    \* the argument of NewCluster
      host |-> host,                    \* what the host answers to net.Interfaces()
      err |-> "nil",                    \* var err error
      clusterTimeout |-> 0,
      clusterBindHost |-> bindHostCfg,
      clusterBind |-> "",
      created |-> {},                   \* addr, snapshots, boltStore, transport: those created
      transportTimeout |-> 0,           \* the timeout given to raft.NewTCPTransport
      peerStore |-> <<"unset">>,        \* the peers the registry holds
      cnf |-> DefaultConfig,
      raft |-> FALSE,                   \* raft.NewRaft succeeded
      resolverCalls |-> 0,              \* history: calls of getFirstLocalAddr
      calls |-> 1,                      \* calls of NewCluster the process made, this one included
      rafts |-> 0,                      \* raft instances the process holds
      steps |-> <<>>,                   \* history: the steps executed, in order
      failed |-> {},                    \* history: the steps that failed
      tested |-> {},                    \* history: the values of err tested by a fatal check
      fatalErr |-> "nil" ]              \* history: the error given to Fatal

\* No bootstrap is followed.
NcIdle ==
    [NcFrame("", <<>>, <<>>, [err |-> TRUE, ifaces |-> <<>>]) EXCEPT !.pc = "idle"]

\* logger.Fatal: the error is logged and the process exits.
Fatal(f) == [f EXCEPT !.pc = "fatal", !.fatalErr = f.err]

\* A step of NewCluster whose call returned error e ("nil": none) and is
\* followed by the check "if err != nil { Fatal }".
CheckedStep(f, step, e, nextPc) ==
    LET g == [f EXCEPT !.err = e,
                       !.tested = @ \cup {e},
                       !.steps = Append(@, step),
                       !.failed = IF e # "nil" THEN @ \cup {step} ELSE @,
                       !.pc = nextPc]
    IN  IF e # "nil" THEN Fatal(g) ELSE g

\* The process after a step of NewCluster that led to frame f.
ProcAfter(f) ==
    [proc EXCEPT ![BootNode] =
        IF f.pc = "fatal" THEN "exited" ELSE IF f.pc = "returned" THEN "up" ELSE @]

\* lines 33-41: the settings are read and the timeout is parsed.
NC_Config ==
    /\ nc.pc = "config"
    /\ LET d == ParseDuration(nc.timeoutCfg)
       IN  nc' = [nc EXCEPT !.pc = "bind",
                            !.err = d.err,
                            !.clusterTimeout = TimeoutOrDefault(d)]
    /\ UNCHANGED <<rtVars, gfla>>

\* lines 43-50: the bind host is the configured one or the first local address.
NC_Bind ==
    /\ nc.pc = "bind"
    /\ LET b == BindStep(nc.bindHostCfg, nc.err, nc.host)
           f == [nc EXCEPT !.clusterBindHost = b.host,
                           !.err = b.err,
                           !.resolverCalls = IF b.called THEN @ + 1 ELSE @,
                           !.tested = IF b.checked THEN @ \cup {b.err} ELSE @,
                           !.steps = Append(@, "bind"),
                           !.failed = IF Len(nc.bindHostCfg) = 0 /\ b.err # "nil"
                                        THEN @ \cup {"bind"} ELSE @,
                           !.pc = "tcpaddr"]
           g == IF b.checked /\ b.err # "nil" THEN Fatal(f) ELSE f
       IN  /\ nc' = g
           /\ proc' = ProcAfter(g)
    /\ UNCHANGED <<leader, leaderCh, IsWorking, runPc, watchPc, becameLeader,
                   worker, workers, received, stopBranch, lateSleeps, gfla, mutex>>

\* lines 52-59: the bind string is composed and resolved.
NC_ResolveTCPAddr ==
    /\ nc.pc = "tcpaddr"
    /\ \E ok \in BOOLEAN :
         LET bind == nc.clusterBindHost \o ":" \o ToString(ClusterBindPort)
             e == IF ok THEN "nil" ELSE "ResolveTCPAddr failed"
             f == CheckedStep([nc EXCEPT !.clusterBind = bind], "tcpaddr", e, "snapshots")
             g == IF ok THEN [f EXCEPT !.created = @ \cup {"addr"}] ELSE f
         IN  /\ nc' = g
             /\ proc' = ProcAfter(g)
    /\ UNCHANGED <<leader, leaderCh, IsWorking, runPc, watchPc, becameLeader,
                   worker, workers, received, stopBranch, lateSleeps, gfla, mutex>>

\* lines 61-74: the snapshot store.
NC_Snapshots ==
    /\ nc.pc = "snapshots"
    /\ \E ok \in BOOLEAN :
         LET e == IF ok THEN "nil" ELSE "NewFileSnapshotStore failed"
             f == CheckedStep(nc, "snapshots", e, "bolt")
             g == IF ok THEN [f EXCEPT !.created = @ \cup {"snapshots"}] ELSE f
         IN  /\ nc' = g
             /\ proc' = ProcAfter(g)
    /\ UNCHANGED <<leader, leaderCh, IsWorking, runPc, watchPc, becameLeader,
                   worker, workers, received, stopBranch, lateSleeps, gfla, mutex>>

\* lines 76-84: the log and stable store, raft.db.
NC_BoltStore ==
    /\ nc.pc = "bolt"
    /\ \E ok \in BOOLEAN :
         LET e == IF ok THEN "nil" ELSE "NewBoltStore failed"
             f == CheckedStep(nc, "bolt", e, "transport")
             g == IF ok THEN [f EXCEPT !.created = @ \cup {"boltStore"}] ELSE f
         IN  /\ nc' = g
             /\ proc' = ProcAfter(g)
    /\ UNCHANGED <<leader, leaderCh, IsWorking, runPc, watchPc, becameLeader,
                   worker, workers, received, stopBranch, lateSleeps, gfla, mutex>>

\* lines 86-102: the TCP transport, given clusterTimeout.
NC_Transport ==
    /\ nc.pc = "transport"
    /\ \E ok \in BOOLEAN :
         LET e == IF ok THEN "nil" ELSE "NewTCPTransport failed"
             f == CheckedStep(nc, "transport", e, "peers")
             g == IF ok THEN [f EXCEPT !.created = @ \cup {"transport"},
                                       !.transportTimeout = nc.clusterTimeout]
                        ELSE f
         IN  /\ nc' = g
             /\ proc' = ProcAfter(g)
    /\ UNCHANGED <<leader, leaderCh, IsWorking, runPc, watchPc, becameLeader,
                   worker, workers, received, stopBranch, lateSleeps, gfla, mutex>>

\* lines 104-106: the peer store is created and seeded; the error SetPeers
\* returns is discarded, and err is neither assigned nor tested.
NC_Peers ==
    /\ nc.pc = "peers"
    /\ \E ok \in BOOLEAN :
         nc' = [nc EXCEPT !.peerStore = IF ok THEN nc.clusterNodes ELSE @,
                          !.steps = Append(@, "peers"),
                          !.failed = IF ok THEN @ ELSE @ \cup {"peers"},
                          !.pc = "raft"]
    /\ UNCHANGED <<rtVars, gfla>>

\* One raft instance shared by all calls.
RaftInstancesShared(rafts) == 1

\* line 115: a successful raft.NewRaft is one more raft instance in the process.
RaftInstances(rafts) == rafts + 1

\* lines 108-120: the configuration is derived and raft is instantiated.
NC_Raft ==
    /\ nc.pc = "raft"
    /\ \E ok \in BOOLEAN :
         LET e == IF ok THEN "nil" ELSE "NewRaft failed"
             f == CheckedStep([nc EXCEPT !.cnf = RaftConfig(nc.clusterNodes)],
                              "raft", e, "return")
             g == IF ok THEN [f EXCEPT !.raft = TRUE,
                                       !.rafts = RaftInstances(@)]
                        ELSE f
         IN  /\ nc' = g
             /\ proc' = ProcAfter(g)
    /\ UNCHANGED <<leader, leaderCh, IsWorking, runPc, watchPc, becameLeader,
                   worker, workers, received, stopBranch, lateSleeps, gfla, mutex>>

\* line 124: &sync.Mutex{}, the zero value of a mutex.
NewMutex == "unlocked"

\* lines 122-129: the Cluster value is built and returned.
NC_Return ==
    /\ nc.pc = "return"
    /\ nc' = [nc EXCEPT !.pc = "returned"]
    /\ proc' = ProcAfter(nc')
    /\ mutex' = [mutex EXCEPT ![BootNode] = NewMutex]
    /\ UNCHANGED <<leader, leaderCh, IsWorking, runPc, watchPc, becameLeader,
                   worker, workers, received, stopBranch, lateSleeps, gfla>>

\* line 29: NewCluster is called again in the same process. Nothing in
\* NewCluster tests for an earlier call; the settings are read again from
\* config.Instance() (lines 33-38) and may differ from the earlier call's.
\* The raft instances of earlier calls remain.
NC_CallAgain ==
    /\ nc.pc = "returned"
    /\ nc.calls < MaxCalls
    /\ \E b \in BindHosts :
         nc' = [NcFrame(b, nc.timeoutCfg, nc.clusterNodes, nc.host)
                  EXCEPT !.calls = nc.calls + 1, !.rafts = nc.rafts]
    /\ UNCHANGED <<rtVars, gfla>>

\* ------------------------------------------------------------------------
\* The cluster: every node has constructed its Cluster value
\* ------------------------------------------------------------------------
Init ==
    /\ InitRuntime
    /\ proc = [n \in Nodes |-> "up"]
    /\ mutex = [n \in Nodes |-> NewMutex]
    /\ gfla = GflaIdle
    /\ nc = NcIdle

NodeStep(n) ==
    \/ BecomeLeader(n)
    \/ LoseLeadership(n)
    \/ Run(n)
    \/ Stop(n)
    \/ DoRunLaunch(n)
    \/ DoRunCheck(n)
    \/ DoRunSleep(n)
    \/ DoRunWake(n)
    \/ WatcherReceive(n)
    \/ WatcherHandle(n)

Next == \E n \in Nodes : NodeStep(n)

\* ------------------------------------------------------------------------
\* One process followed from the entry of NewCluster
\* ------------------------------------------------------------------------
InitBoot ==
    /\ InitRuntime
    /\ proc = [n \in Nodes |-> "boot"]
    /\ mutex = [n \in Nodes |-> "nil"]
    /\ gfla = GflaIdle
    /\ \E b \in BindHosts, t \in TimeoutStrings, h \in BootHosts,
          ps \in SeqsUpTo(PeerAddrs, MaxPeers) :
         nc = NcFrame(b, t, ps, h)

NextBoot ==
    \/ NC_Config
    \/ NC_Bind
    \/ NC_ResolveTCPAddr
    \/ NC_Snapshots
    \/ NC_BoltStore
    \/ NC_Transport
    \/ NC_Peers
    \/ NC_Raft
    \/ NC_Return
    \/ NodeStep(BootNode)

\* ------------------------------------------------------------------------
\* One process that calls NewCluster repeatedly
\* ------------------------------------------------------------------------
InitCalls ==
    /\ InitRuntime
    /\ proc = [n \in Nodes |-> "boot"]
    /\ mutex = [n \in Nodes |-> "nil"]
    /\ gfla = GflaIdle
    /\ \E b \in BindHosts, ps \in SeqsUpTo(PeerAddrs, 1) :
         nc = NcFrame(b, <<"1", "0", "s">>, ps,
                      [err |-> FALSE,
                       ifaces |-> <<[err |-> FALSE,
                                     addrs |-> <<[kind |-> "IPNet",
                                                  ip |-> <<10, 0, 0, 2>>]>>]>>])

NextCalls ==
    \/ NextBoot
    \/ NC_CallAgain

\* ------------------------------------------------------------------------
\* One call of getFirstLocalAddr
\* ------------------------------------------------------------------------
InitAddr ==
    /\ InitRuntime
    /\ proc = [n \in Nodes |-> "boot"]
    /\ mutex = [n \in Nodes |-> "nil"]
    /\ nc = NcIdle
    /\ \E h \in Hosts :
         gfla = [pc |-> "call", host |-> h, out |-> [result |-> "", err |-> "nil"]]

NextAddr == GetFirstLocalAddr

vars == <<rtVars, gfla, nc, mutex>>

Spec == Init /\ [][Next]_vars

\* One process from the entry of NewCluster on.
SpecBoot == InitBoot /\ [][NextBoot]_vars

\* One process that may call NewCluster again after it returned.
SpecCalls == InitCalls /\ [][NextCalls]_vars

\* getFirstLocalAddr on every host within the bounds.
SpecAddr == InitAddr /\ [][NextAddr]_vars

\* One node alone, with the scheduling the Go runtime gives doRun's
\* goroutine: a runnable goroutine is eventually run and a sleep ends.
NextOne == NodeStep(BootNode)

LiveSpec ==
    /\ Init
    /\ [][NextOne]_vars
    /\ WF_vars(DoRunLaunch(BootNode))
    /\ WF_vars(DoRunCheck(BootNode))
    /\ WF_vars(DoRunSleep(BootNode))
    /\ WF_vars(DoRunWake(BootNode))

\* ------------------------------------------------------------------------
\* Properties
\* ------------------------------------------------------------------------

\* C1: a Worker runs only on the node that is currently the leader, hence on
\* at most one node of the cluster at a time.
C1_WorkerOnlyOnLeader ==
    /\ \A n \in Nodes : HasRunningWorker(n) => leader = n
    /\ Cardinality({n \in Nodes : HasRunningWorker(n)}) <= 1

\* C2: in one run of doRun the watcher receives at most one value and at most
\* one Worker is started; when the received value is true and the watcher has
\* handled it, exactly one Worker was constructed and it was started.
C2_AtMostOneStart ==
    \A n \in Nodes :
        /\ Len(received[n]) <= 1
        /\ Len(workers[n]) <= 1
        /\ watchPc[n] = "done" => Len(received[n]) = 1
        /\ (watchPc[n] = "done" /\ received[n] = <<TRUE>>)
              => (Len(workers[n]) = 1 /\ Running(workers[n][1]))

\* A watcher that received true, started its Worker and ended, with a later
\* false left pending on the channel.
C2_Witness ==
    \E n \in Nodes :
        /\ watchPc[n] = "done"
        /\ received[n] = <<TRUE>>
        /\ Len(workers[n]) = 1
        /\ leaderCh[n] = <<FALSE>>

\* C3: when the first value received is false, no Worker is constructed, the
\* watcher does not go back to the receive, and a true delivered later stays
\* on the channel, unconsumed.
C3_FalseFirstNoWorker ==
    \A n \in Nodes :
        (received[n] # <<>> /\ received[n][1] = FALSE)
            => /\ workers[n] = <<>>
               /\ received[n] = <<FALSE>>
               /\ watchPc[n] \in {"test", "done"}

\* A watcher that ended on false, on a node that became leader afterwards
\* and whose true notification is pending.
C3_Witness ==
    \E n \in Nodes :
        /\ received[n] = <<FALSE>>
        /\ watchPc[n] = "done"
        /\ leader = n
        /\ leaderCh[n] = <<TRUE>>

\* C4: the worker reference is nil whenever it is tested, the "stop the old
\* worker" branch is never executed, and every Worker the watcher started
\* keeps both liveness flags set.
C4_NeverStopped ==
    \A n \in Nodes :
        /\ stopBranch[n] = 0
        /\ watchPc[n] = "test" => worker[n] = 0
        /\ \A i \in 1..Len(workers[n]) : Running(workers[n][i])

\* A node that started a Worker, lost leadership to another node, and has
\* the false notification pending: its Worker is still running.
C4_Witness ==
    \E n \in Nodes :
        /\ received[n] = <<TRUE>>
        /\ HasRunningWorker(n)
        /\ leader \notin {n, NoLeader}
        /\ leaderCh[n] = <<FALSE>>

\* C5: doRun returns only with the liveness flag cleared; after the flag is
\* cleared doRun begins at most one more sleep, and it eventually returns.
C5_StopsAfterClear ==
    /\ [](\A n \in Nodes : runPc[n] = "returned" => ~IsWorking[n])
    /\ [](\A n \in Nodes : lateSleeps[n] <= 1)
    /\ ((runPc[BootNode] # "idle" /\ ~IsWorking[BootNode])
           ~> (runPc[BootNode] = "returned"))

\* doRun returned after a sleep that began when the flag was already cleared.
C5_Witness ==
    /\ runPc[BootNode] = "returned"
    /\ lateSleeps[BootNode] = 1

\* C6: the participant is configured for single-node bootstrap exactly when
\* the peer list given to NewCluster has at most one entry.
C6_SingleNodeIffAtMostOnePeer ==
    nc.raft => (nc.cnf.EnableSingleNode <=> Len(nc.clusterNodes) <= 1)

\* NewCluster returned for an empty peer list, with single-node bootstrap.
C6_Witness ==
    /\ nc.pc = "returned"
    /\ nc.clusterNodes = <<>>
    /\ nc.cnf.EnableSingleNode

\* C7: the steps of NewCluster are executed in the order of StepOrder; when a
\* step fails the process exits at that step: it is the last step executed,
\* no Cluster is returned, no watcher is launched and no Worker is started.
C7_FailFastOrdered ==
    /\ nc.steps = SubSeq(StepOrder, 1, Len(nc.steps))
    /\ nc.failed # {}
          => /\ nc.failed = {nc.steps[Len(nc.steps)]}
             /\ nc.pc = "fatal"
             /\ proc[BootNode] = "exited"
             /\ watchPc[BootNode] = "none"
             /\ workers[BootNode] = <<>>

\* The timeout strings of TimeoutStrings that are not durations.
NotDurations ==
    { <<"n", "o", "t", "-", "a", "-", "d", "u", "r", "a", "t", "i", "o", "n">>,
      <<"1", "0">>,
      <<>> }

\* C8: when cluster.timeout is not a duration, the timeout is 10 seconds, the
\* transport is given 10 seconds, and the parse error is neither tested by a
\* fatal check nor given to Fatal.
C8_ParseFailureDefaults ==
    (nc.pc \notin {"idle", "config"} /\ nc.timeoutCfg \in NotDurations)
        => /\ nc.clusterTimeout = DefaultTimeout
           /\ "transport" \in nc.created => nc.transportTimeout = DefaultTimeout
           /\ ParseError \notin nc.tested
           /\ nc.fatalErr # ParseError

\* NewCluster returned with a configured bind host and a timeout string that
\* is not a duration; the transport was given 10 seconds.
C8_Witness ==
    /\ nc.pc = "returned"
    /\ nc.timeoutCfg \in NotDurations
    /\ nc.timeoutCfg # <<>>
    /\ nc.bindHostCfg # ""
    /\ nc.transportTimeout = DefaultTimeout

\* The interfaces of the host that list at least one address.
Exposing(host) ==
    {i \in 1..Len(host.ifaces) :
        ~host.ifaces[i].err /\ host.ifaces[i].addrs # <<>>}

\* The textual forms of the addresses bound to the host's interfaces.
HostAddrTexts(host) ==
    UNION {{IPString(host.ifaces[i].addrs[j].ip) :
               j \in 1..Len(host.ifaces[i].addrs)} : i \in Exposing(host)}

\* The first address of the first interface, in enumeration order, that
\* lists an address.
FirstFound(host) ==
    LET i == CHOOSE k \in Exposing(host) : \A m \in Exposing(host) : k <= m
    IN  IPString(host.ifaces[i].addrs[1].ip)

\* C9: getFirstLocalAddr returns the first address of the first interface
\* that lists one; addresses of later interfaces never replace it.
C9_FirstInterfaceWins ==
    (gfla.pc = "returned" /\ Exposing(gfla.host) # {})
        => gfla.out.result = FirstFound(gfla.host)

\* C10: when some interface lists an address, getFirstLocalAddr succeeds
\* with a non-empty result that is the textual form of an address bound to
\* one of the host's interfaces; it never returns "" with a nil error.
C10_ResultIsHostAddress ==
    gfla.pc = "returned"
        => /\ Exposing(gfla.host) # {}
                => /\ gfla.out.err = "nil"
                   /\ Len(gfla.out.result) > 0
                   /\ gfla.out.result \in HostAddrTexts(gfla.host)
           /\ ~(gfla.out.result = "" /\ gfla.out.err = "nil")

\* A successful call on a host whose first interface lists two addresses and
\* whose second interface fails to list its addresses.
C10_Witness ==
    /\ gfla.pc = "returned"
    /\ Len(gfla.host.ifaces) = 2
    /\ Exposing(gfla.host) = {1}
    /\ Len(gfla.host.ifaces[1].addrs) = 2
    /\ gfla.host.ifaces[2].err
    /\ gfla.out.err = "nil"
    /\ gfla.out.result = "10.0.0.2"

\* C11: getFirstLocalAddr fails exactly when no interface lists an address;
\* an interface whose Addrs() fails is skipped and the enumeration goes on;
\* a failure comes with the empty address.
C11_FailsIffNoAddress ==
    gfla.pc = "returned"
        => /\ gfla.out.err # "nil" <=> Exposing(gfla.host) = {}
           /\ gfla.out.err # "nil" => gfla.out.result = ""

\* A successful call on a host whose first interface fails to list its
\* addresses and whose second interface lists one.
C11_Witness ==
    /\ gfla.pc = "returned"
    /\ Len(gfla.host.ifaces) = 2
    /\ gfla.host.ifaces[1].err
    /\ Exposing(gfla.host) = {2}
    /\ gfla.out.err = "nil"
    /\ gfla.out.result = "127.0.0.1"

\* The consensus participants that exist in the process BootNode.
Participants == IF proc[BootNode] = "exited" THEN 0 ELSE nc.rafts

C13_WatcherIndependent ==
    /\ [](\A n \in Nodes :
            runPc[n] \in {"check", "body", "sleeping", "returned"}
                => watchPc[n] # "none")
    /\ [][\A n \in Nodes :
            (watchPc'[n] = "recv" /\ watchPc[n] # "recv")
                => (watchPc[n] = "none" /\ runPc[n] = "entered")]_vars
    /\ (([](leaderCh[BootNode] = <<>>)
           /\ <>(runPc[BootNode] # "idle" /\ ~IsWorking[BootNode]))
          => <>[](runPc[BootNode] = "returned" /\ watchPc[BootNode] = "recv"))

\* doRun returned while the watcher, which received nothing, is blocked on
\* the empty channel.
C13_Witness ==
    /\ runPc[BootNode] = "returned"
    /\ watchPc[BootNode] = "recv"
    /\ received[BootNode] = <<>>
    /\ leaderCh[BootNode] = <<>>

\* C14: the watcher does not read the lifecycle's liveness flag: with the
\* flag cleared it can still take a pending value and handle it, and
\* handling a true constructs and starts a Worker.
C14_StartIgnoresFlag ==
    /\ [](\A n \in Nodes :
            /\ (watchPc[n] = "recv" /\ leaderCh[n] # <<>>) => ENABLED WatcherReceive(n)
            /\ watchPc[n] = "test" => ENABLED WatcherHandle(n))
    /\ [][\A n \in Nodes :
            (watchPc[n] = "test" /\ becameLeader[n] /\ ~IsWorking[n]
                /\ watchPc'[n] # "test")
              => /\ Len(workers'[n]) = Len(workers[n]) + 1
                 /\ Running(workers'[n][Len(workers'[n])])]_vars

\* doRun has returned with the flag cleared, and the node, now leader, runs
\* the Worker its watcher started.
C14_Witness ==
    \E n \in Nodes :
        /\ runPc[n] = "returned"
        /\ ~IsWorking[n]
        /\ lateSleeps[n] = 0
        /\ leader = n
        /\ watchPc[n] = "done"
        /\ HasRunningWorker(n)

\* C15: with a configured bind host getFirstLocalAddr is not called, the
\* bind step cannot fail whatever the host's interfaces, and NewCluster binds
\* to that host and the port; with an empty bind host getFirstLocalAddr is
\* called once, and when it fails the process exits before the endpoint is
\* resolved and before any store or transport is created.
C15_ResolverOnlyWhenNoHost ==
    nc.pc \notin {"idle", "config", "bind"}
        => /\ nc.bindHostCfg = "10.0.0.5"
                => /\ nc.resolverCalls = 0
                   /\ "bind" \notin nc.failed
                   /\ nc.fatalErr \notin {"net.Interfaces",
                                          "Unable to find local address to bind"}
                   /\ nc.clusterBindHost = "10.0.0.5"
                   /\ Len(nc.steps) >= 2 => nc.clusterBind = "10.0.0.5:11291"
           /\ nc.bindHostCfg = ""
                => /\ nc.resolverCalls = 1
                   /\ Exposing(nc.host) = {}
                        => /\ nc.pc = "fatal"
                           /\ proc[BootNode] = "exited"
                           /\ nc.steps = <<"bind">>
                           /\ nc.created = {}
                   /\ Exposing(nc.host) # {} => "bind" \notin nc.failed

\* NewCluster returned, bound to the configured host, on a host without any
\* interface.
C15_Witness ==
    /\ nc.pc = "returned"
    /\ nc.bindHostCfg = "10.0.0.5"
    /\ nc.host = [err |-> FALSE, ifaces |-> <<>>]
    /\ nc.clusterBind = "10.0.0.5:11291"
    /\ "transport" \in nc.created

\* C16: when the consensus engine is instantiated the peer registry holds
\* exactly the peer list given to NewCluster, entries and order, and it
\* still holds it at every later step of the coordinator.
C16_PeerRegistrySeeded ==
    nc.raft => nc.peerStore = nc.clusterNodes

\* A step of doRun.
DoRunStep(n) == DoRunLaunch(n) \/ DoRunCheck(n) \/ DoRunSleep(n) \/ DoRunWake(n)

\* C17: the mutex of the Cluster NewCluster returned is unlocked; the only
\* step that changes a mutex is the construction of the Cluster, so doRun
\* and the watcher never lock or unlock it; and neither task is ever blocked
\* except the watcher at its receive while the channel is empty (the sleep
\* of doRun ends by itself).
C17_MutexNeverUsed ==
    /\ [](nc.pc = "returned" => mutex[BootNode] = "unlocked")
    /\ [](\A n \in Nodes : mutex[n] # "locked")
    /\ [][mutex' # mutex => (nc.pc = "return" /\ nc'.pc = "returned")]_vars
    /\ [](\A n \in Nodes :
            /\ runPc[n] \in {"entered", "check", "body", "sleeping"}
                  => ENABLED DoRunStep(n)
            /\ watchPc[n] = "test" => ENABLED WatcherHandle(n)
            /\ (watchPc[n] = "recv" /\ leaderCh[n] # <<>>)
                  => ENABLED WatcherReceive(n))

\* doRun has returned and the watcher has ended after it started a Worker;
\* the mutex is still unlocked.
C17_Witness ==
    /\ nc.pc = "returned"
    /\ runPc[BootNode] = "returned"
    /\ watchPc[BootNode] = "done"
    /\ HasRunningWorker(BootNode)
    /\ mutex[BootNode] = "unlocked"

====
